---------------------------- MODULE Spec2Model ----------------------------
(***************************************************************************)
(* The two user-data generators of the toolkit.                            *)
(*                                                                         *)
(*   variant B  src/data/generators/generate_test_users.py                 *)
(*   variant A  src/data/generate_users.py                                 *)
(*                                                                         *)
(* Text the code computes on (names, usernames, emails, group lists) is a  *)
(* sequence of one-character strings, so that lower(), split(), replace(), *)
(* str(), sorted() and join() do what Python does to it.  Text the code    *)
(* only passes along (department names, column names, dates) is a string.  *)
(***************************************************************************)
EXTENDS Integers, Sequences, FiniteSets, TLC

VARIABLES
    \* ---- variant B: the process and generate_users' locals
    count,            \* args.count, any integer
    pc,               \* "start", "loop", "probe", "emit", "done"
    usernames_used,   \* line 72
    users_generated,  \* line 73
    full_name,        \* line 81
    username,         \* lines 82 and 89
    suffix,           \* line 86
    opened,           \* open(output_file, 'w') has run (line 75)
    file,             \* rows of output_file on disk
    success,          \* the "Successfully generated" line was printed (107)
    \* ---- variant B: the seeded Faker generator (lines 14-15)
    fake_calls,       \* fake.name() calls made by this process
    fake_stream,      \* what the generator seeded with 42 returns, call by call
    \* ---- variant B: an earlier run of the same command
    run,              \* 1 or 2
    first_file,       \* the rows the first run left
    \* ---- variant A
    pcA,              \* "gen", "done"
    users,            \* line 61
    unique_seen,      \* values fake.unique has handed out
    csvA              \* rows of OUTPUT_FILE

varsB == <<count, pc, usernames_used, users_generated, full_name, username,
           suffix, opened, file, success, fake_calls, fake_stream, run,
           first_file>>
varsA == <<pcA, users, unique_seen, csvA>>
vars == <<count, pc, usernames_used, users_generated, full_name, username,
          suffix, opened, file, success, fake_calls, fake_stream, run,
          first_file, pcA, users, unique_seen, csvA>>

---------------------------------------------------------------------------
(* Python's text operations, as the code uses them.                        *)

\* The characters that occur, in code-point order.
ASCII ==
    <<" ","'","-",".","0","1","2","3","4","5","6","7","8","9",";","@",
      "A","B","C","D","E","F","G","H","I","J","K","L","M","N","O","P","Q",
      "R","S","T","U","V","W","X","Y","Z","_",
      "a","b","c","d","e","f","g","h","i","j","k","l","m","n","o","p","q",
      "r","s","t","u","v","w","x","y","z">>

Chars == {ASCII[i] : i \in 1..Len(ASCII)}

Ord == [c \in Chars |-> CHOOSE i \in 1..Len(ASCII) : ASCII[i] = c]

UpperCase ==
    <<"A","B","C","D","E","F","G","H","I","J","K","L","M","N","O","P","Q",
      "R","S","T","U","V","W","X","Y","Z">>
LowerCase ==
    <<"a","b","c","d","e","f","g","h","i","j","k","l","m","n","o","p","q",
      "r","s","t","u","v","w","x","y","z">>
Digits == <<"0","1","2","3","4","5","6","7","8","9">>

LowerOf ==
    [c \in Chars |->
        IF \E i \in 1..Len(UpperCase) : UpperCase[i] = c
        THEN LowerCase[CHOOSE i \in 1..Len(UpperCase) : UpperCase[i] = c]
        ELSE c]

\* str.lower()
lower(s) == [i \in 1..Len(s) |-> LowerOf[s[i]]]

\* str.split() with no separator: runs of whitespace separate, no empty parts
RECURSIVE split_scan(_, _, _)
split_scan(s, i, cur) ==
    IF i > Len(s)
    THEN IF cur = <<>> THEN <<>> ELSE <<cur>>
    ELSE IF s[i] = " "
         THEN IF cur = <<>>
              THEN split_scan(s, i + 1, <<>>)
              ELSE <<cur>> \o split_scan(s, i + 1, <<>>)
         ELSE split_scan(s, i + 1, Append(cur, s[i]))

split(s) == split_scan(s, 1, <<>>)

\* str.replace(ch, "") for a one-character ch
replace(s, ch) == SelectSeq(s, LAMBDA c : c # ch)

\* str(n) of an integer n >= 0, as the f-string of line 87 formats it
RECURSIVE str(_)
str(n) == IF n < 10 THEN <<Digits[n + 1]>>
          ELSE str(n \div 10) \o <<Digits[(n % 10) + 1]>>

\* s < t for Python strings: by code point, a proper prefix first
RECURSIVE StrLess(_, _)
StrLess(s, t) ==
    IF t = <<>> THEN FALSE
    ELSE IF s = <<>> THEN TRUE
    ELSE IF s[1] = t[1] THEN StrLess(Tail(s), Tail(t))
    ELSE Ord[s[1]] < Ord[t[1]]

RECURSIVE sorted_insert(_, _)
sorted_insert(x, l) ==
    IF l = <<>> THEN <<x>>
    ELSE IF StrLess(x, l[1]) THEN <<x>> \o l
    ELSE <<l[1]>> \o sorted_insert(x, Tail(l))

\* sorted(list of strings)
RECURSIVE sorted(_)
sorted(l) == IF l = <<>> THEN <<>> ELSE sorted_insert(l[1], sorted(Tail(l)))

\* sep.join(list of strings)
RECURSIVE join(_, _)
join(sep, l) ==
    IF l = <<>> THEN <<>>
    ELSE IF Len(l) = 1 THEN l[1]
    ELSE l[1] \o sep \o join(sep, Tail(l))

Min(a, b) == IF a < b THEN a ELSE b

---------------------------------------------------------------------------
(* Variant B: constants and helpers.                                       *)

DEPARTMENTS ==
    <<"IT", "Sales", "Marketing", "Finance", "HR", "Operations", "Legal">>

DepartmentSet == {DEPARTMENTS[i] : i \in 1..Len(DEPARTMENTS)}

GROUPS ==
    [d \in DepartmentSet |->
      CASE d = "IT" ->
           << <<"d","e","v","e","l","o","p","e","r","s">>,
              <<"s","y","s","a","d","m","i","n","s">>,
              <<"d","e","v","o","p","s">>,
              <<"s","u","p","p","o","r","t">> >>
        [] d = "Sales" ->
           << <<"s","a","l","e","s">>,
              <<"a","c","c","o","u","n","t","_","m","a","n","a","g","e","r","s">>,
              <<"b","u","s","i","n","e","s","s","_","d","e","v">> >>
        [] d = "Marketing" ->
           << <<"m","a","r","k","e","t","i","n","g">>,
              <<"c","o","n","t","e","n","t">>,
              <<"s","o","c","i","a","l","_","m","e","d","i","a">> >>
        [] d = "Finance" ->
           << <<"f","i","n","a","n","c","e">>,
              <<"a","c","c","o","u","n","t","i","n","g">>,
              <<"a","n","a","l","y","s","t","s">> >>
        [] d = "HR" ->
           << <<"h","r">>,
              <<"r","e","c","r","u","i","t","e","r","s">>,
              <<"t","r","a","i","n","i","n","g">> >>
        [] d = "Operations" ->
           << <<"o","p","e","r","a","t","i","o","n","s">>,
              <<"l","o","g","i","s","t","i","c","s">>,
              <<"f","a","c","i","l","i","t","i","e","s">> >>
        [] d = "Legal" ->
           << <<"l","e","g","a","l">>,
              <<"c","o","m","p","l","i","a","n","c","e">> >>]

\* the default of generate_email's domain parameter, with the "@" of line 47
AtDomain == <<"@","t","e","c","h","c","o","r","p",".","c","o","m">>

Header ==
    <<"username", "fullname", "email", "department", "groups",
      "account_expiry">>

\* generate_username without the lower() of line 35
generate_username_nolower(name) ==
    LET parts == split(name)
        initial_last ==
            IF Len(parts) >= 2
            THEN <<parts[1][1]>> \o parts[Len(parts)]
            ELSE parts[1]
    IN  replace(replace(initial_last, "'"), "-")

\* generate_username(full_name), lines 30-43
generate_username(name) ==
    LET parts == split(lower(name))
        initial_last ==
            IF Len(parts) >= 2
            THEN <<parts[1][1]>> \o parts[Len(parts)]
            ELSE parts[1]
    IN  replace(replace(initial_last, "'"), "-")

\* generate_email(username), lines 45-47
generate_email(name) == name \o AtDomain

\* random.randint(1, min(2, len(available_groups))): what it may return
RandintRange(department) == 1..Min(2, Len(GROUPS[department]))

\* random.sample(population, k): the k-element lists without repetition
Samples(population, k) ==
    {[j \in 1..k |-> population[p[j]]] :
        p \in {q \in [1..k -> 1..Len(population)] :
                  \A a, b \in 1..k : a # b => q[a] # q[b]}}

\* select_groups without the sorted() of line 54
select_groups_unsorted(selected) == join(<<";">>, selected)

\* select_groups(department), given what randint and sample returned
select_groups(selected) == join(<<";">>, sorted(selected))

\* the row with its email derived from the base username, not the final one
Row_baseEmail(name, full, department, groups, expiry) ==
    <<name, full, generate_email(generate_username(full)), department,
      groups, expiry>>

\* the row of line 100
Row(name, full, department, groups, expiry) ==
    <<name, full, generate_email(name), department, groups, expiry>>

\* the loop test of line 79 with <= for <
LoopContinues_inclusive(generated, wanted) == generated <= wanted

\* the loop test of line 79
LoopContinues(generated, wanted) == generated < wanted

\* the inner loop never entered: the first suffix is taken as it is
SuffixTaken_never(name, n, used) == FALSE

\* the loop test of line 87
SuffixTaken(name, n, used) == (name \o str(n)) \in used

\* line 88 stepping by two
NextSuffix_skip(n) == n + 2

\* line 88 left out
NextSuffix_stuck(n) == n

\* line 88
NextSuffix(n) == n + 1

\* fake.name(): the generator is seeded (line 15), so a call a process makes
\* returns what the same call returned in any earlier process; a call made
\* for the first time may return any name of the source.
FakeNameReturns(names) ==
    IF fake_calls < Len(fake_stream)
    THEN {fake_stream[fake_calls + 1]}
    ELSE names

---------------------------------------------------------------------------
(* What the outside world supplies to a run.  names: the full names        *)
(* fake.name() may return.  departments, group_counts: the values the      *)
(* unseeded random module may return from random.choice(DEPARTMENTS) and   *)
(* random.randint(1, ..).  expiries: the dates generate_expiry_date() may  *)
(* return.  Each specification below fixes one such environment.           *)

JohnSmith == <<"J","o","h","n"," ","S","m","i","t","h">>
JaneSmith == <<"J","a","n","e"," ","S","m","i","t","h">>
JSmith2 == <<"J"," ","S","m","i","t","h","2">>
SeanOBrienLee ==
    <<"S","e","a","n"," ","O","'","B","r","i","e","n","-","L","e","e">>
Cher == <<"C","h","e","r">>
JohnSmithJr == <<"J","o","h","n"," ","S","m","i","t","h"," ","J","r",".">>

\* largest --count of the runs over many names
MaxCount == 3
\* largest --count of the runs over names that keep colliding
MaxChain == 10
\* largest --count of the runs over every department and group draw
MaxCountGroups == 2
\* largest --count of the command that is run twice
MaxCountRepro == 2

NamesEnv ==
    [names |-> {JohnSmith, JaneSmith, JSmith2, SeanOBrienLee, Cher,
                JohnSmithJr},
     departments |-> {"Legal"},
     group_counts |-> 1..2,
     expiries |-> {"2027-11-04"}]

ChainEnv ==
    [names |-> {JohnSmith, SeanOBrienLee},
     departments |-> {"Legal"},
     group_counts |-> {2},
     expiries |-> {"2027-11-04"}]

GroupsEnv ==
    [names |-> {JohnSmith},
     departments |-> DepartmentSet,
     group_counts |-> 1..2,
     expiries |-> {"2027-05-04", "2028-11-04"}]

ReproEnv ==
    [names |-> {JohnSmith, JaneSmith},
     departments |-> {"HR", "Legal"},
     group_counts |-> 1..2,
     expiries |-> {"2027-05-04", "2028-11-04"}]

---------------------------------------------------------------------------
(* Variant A: constants and helpers.                                       *)

\* NUM_USERS is 50 in the source (line 19); the loop of line 62 is run
\* here with a smaller value.
NUM_USERS == 3

FirstNames == {<<"J","o","h","n">>, <<"J","a","n","e">>}
LastNames == {<<"S","m","i","t","h">>, <<"D","o","e">>}

\* fake.unique.random_number(digits=6) draws from 0..999999; here from a
\* pool with one value to spare.
EmployeeIds == 0..NUM_USERS

\* The columns derived from the name, and employee_id.  The other columns
\* (email, phone, department, role, start_date) are drawn independently of
\* the name and of each other and are left out of the records here.
fieldnames == <<"username", "first_name", "last_name", "full_name",
                "employee_id">>

\* the list of line 28
formats(first_name, last_name) ==
    << lower(first_name) \o lower(last_name),
       lower(first_name) \o <<".">> \o lower(last_name),
       lower(<<first_name[1]>>) \o lower(last_name) >>

---------------------------------------------------------------------------
(* The state after construction.                                           *)

InitA ==
    /\ pcA = "gen"
    /\ users = <<>>
    /\ unique_seen = {}
    /\ csvA = <<>>

InitB(counts) ==
    /\ count \in counts
    /\ pc = "start"
    /\ usernames_used = {}
    /\ users_generated = 0
    /\ full_name = <<>>
    /\ username = <<>>
    /\ suffix = 0
    /\ opened = FALSE
    /\ file = <<>>
    /\ success = FALSE
    /\ fake_calls = 0
    /\ fake_stream = <<>>
    /\ run = 1
    /\ first_file = <<>>

---------------------------------------------------------------------------
(* Variant B: generate_users, one action per step of its loops.            *)

\* lines 69-77: the locals, open(output_file, 'w'), the header row
Open ==
    /\ pc = "start"
    /\ usernames_used' = {}
    /\ users_generated' = 0
    /\ opened' = TRUE
    /\ file' = <<Header>>
    /\ pc' = "loop"
    /\ UNCHANGED <<count, full_name, username, suffix, success, fake_calls,
                   fake_stream, run, first_file>>
    /\ UNCHANGED varsA

\* lines 79-86: the loop test, fake.name(), generate_username, the membership test
NextUser(env) ==
    /\ pc = "loop"
    /\ LoopContinues(users_generated, count)
    /\ \E n \in FakeNameReturns(env.names) :
          /\ full_name' = n
          /\ fake_stream' = IF fake_calls < Len(fake_stream)
                            THEN fake_stream
                            ELSE Append(fake_stream, n)
          /\ fake_calls' = fake_calls + 1
          /\ username' = generate_username(n)
          /\ IF generate_username(n) \in usernames_used
             THEN suffix' = 2 /\ pc' = "probe"
             ELSE suffix' = suffix /\ pc' = "emit"
    /\ UNCHANGED <<count, usernames_used, users_generated, opened, file,
                   success, run, first_file>>
    /\ UNCHANGED varsA

\* lines 87-89: one test of the inner loop, then its body or its exit
Probe ==
    /\ pc = "probe"
    /\ IF SuffixTaken(username, suffix, usernames_used)
       THEN /\ suffix' = NextSuffix(suffix)
            /\ UNCHANGED <<username, pc>>
       ELSE /\ username' = username \o str(suffix)
            /\ pc' = "emit"
            /\ UNCHANGED suffix
    /\ UNCHANGED <<count, usernames_used, users_generated, full_name, opened,
                   file, success, fake_calls, fake_stream, run, first_file>>
    /\ UNCHANGED varsA

\* lines 91-101: record the username, draw the other fields, write the row
Emit(env) ==
    /\ pc = "emit"
    /\ usernames_used' = usernames_used \cup {username}
    /\ \E department \in DepartmentSet \cap env.departments :
       \E num_groups \in RandintRange(department) \cap env.group_counts :
       \E selected \in Samples(GROUPS[department], num_groups) :
       \E expiry \in env.expiries :
          file' = Append(file, Row(username, full_name, department,
                                   select_groups(selected), expiry))
    /\ users_generated' = users_generated + 1
    /\ pc' = "loop"
    /\ UNCHANGED <<count, full_name, username, suffix, opened, success,
                   fake_calls, fake_stream, run, first_file>>
    /\ UNCHANGED varsA

\* lines 79 and 107: the loop ends, the file is closed, success is reported
Close ==
    /\ pc = "loop"
    /\ ~LoopContinues(users_generated, count)
    /\ success' = TRUE
    /\ pc' = "done"
    /\ UNCHANGED <<count, usernames_used, users_generated, full_name,
                   username, suffix, opened, file, fake_calls, fake_stream,
                   run, first_file>>
    /\ UNCHANGED varsA

\* the command is run a second time with the same arguments: a new process,
\* whose import runs Faker.seed(42) again (lines 14-15) and leaves the random
\* module as the interpreter seeded it
Rerun ==
    /\ pc = "done"
    /\ run = 1
    /\ run' = 2
    /\ first_file' = file
    /\ pc' = "start"
    /\ fake_calls' = 0
    /\ success' = FALSE
    /\ opened' = FALSE
    /\ usernames_used' = {}
    /\ users_generated' = 0
    /\ full_name' = <<>>
    /\ username' = <<>>
    /\ suffix' = 0
    /\ UNCHANGED <<count, file, fake_stream>>
    /\ UNCHANGED varsA

---------------------------------------------------------------------------
(* Variant A: main.                                                        *)

\* lines 62-64 with generate_user (35-52) and generate_username (26-33)
GenerateUser ==
    /\ pcA = "gen"
    /\ Len(users) < NUM_USERS
    /\ \E first_name \in FirstNames :
       \E last_name \in LastNames :
       \E choice \in 1..Len(formats(first_name, last_name)) :
       \E employee_id \in EmployeeIds \ unique_seen :
          /\ users' = Append(users,
                [username |-> formats(first_name, last_name)[choice],
                 first_name |-> first_name,
                 last_name |-> last_name,
                 full_name |-> first_name \o <<" ">> \o last_name,
                 employee_id |-> employee_id])
          /\ unique_seen' = unique_seen \cup {employee_id}
    /\ UNCHANGED <<pcA, csvA>>
    /\ UNCHANGED varsB

\* lines 68-76
WriteCSV ==
    /\ pcA = "gen"
    /\ Len(users) = NUM_USERS
    /\ csvA' = <<fieldnames>> \o users
    /\ pcA' = "done"
    /\ UNCHANGED <<users, unique_seen>>
    /\ UNCHANGED varsB

---------------------------------------------------------------------------
(* Specifications.                                                         *)

\* variant B, one run, many names
Init == InitB(-1..MaxCount) /\ InitA
Next == Open \/ NextUser(NamesEnv) \/ Probe \/ Emit(NamesEnv) \/ Close
Spec == Init /\ [][Next]_vars

\* variant B, one run, names that keep colliding; the process is never
\* suspended (single-threaded, no blocking call in the loops)
InitChain == InitB(-1..MaxChain) /\ InitA
NextChain == Open \/ NextUser(ChainEnv) \/ Probe \/ Emit(ChainEnv) \/ Close
SpecChain == InitChain /\ [][NextChain]_vars /\ WF_vars(NextChain)

\* variant B, one run, every department and group draw
InitGroups == InitB(0..MaxCountGroups) /\ InitA
NextGroups == Open \/ NextUser(GroupsEnv) \/ Probe \/ Emit(GroupsEnv) \/ Close
SpecGroups == InitGroups /\ [][NextGroups]_vars

\* variant B, the same command run twice
InitRepro == InitB(0..MaxCountRepro) /\ InitA
NextRepro ==
    Open \/ NextUser(ReproEnv) \/ Probe \/ Emit(ReproEnv) \/ Close \/ Rerun
SpecRepro == InitRepro /\ [][NextRepro]_vars

\* variant A
InitVariantA == InitB({0}) /\ InitA
NextA == GenerateUser \/ WriteCSV
SpecA == InitVariantA /\ [][NextA]_vars

---------------------------------------------------------------------------
(* Properties.                                                             *)

\* the data rows of the file this run has opened
RowIndexes == IF opened THEN 2..Len(file) ELSE {}

\* the username an undisambiguated row would carry
BaseOf(row) == generate_username(row[2])

LowerSet == {LowerCase[i] : i \in 1..Len(LowerCase)}
DigitSet == {Digits[i] : i \in 1..Len(Digits)}

UpperSet == {UpperCase[i] : i \in 1..Len(UpperCase)}

\* a name made of letters, spaces, ' and -
IsPlainName(s) ==
    \A i \in 1..Len(s) : s[i] \in LowerSet \cup UpperSet \cup {" ", "'", "-"}

\* ^[a-z]+$
IsLowerAlpha(s) == s # <<>> /\ \A i \in 1..Len(s) : s[i] \in LowerSet

\* s.split(sep) for a one-character sep: empty parts are kept
RECURSIVE SplitOn(_, _)
SplitOn(s, sep) ==
    IF \A i \in 1..Len(s) : s[i] # sep THEN <<s>>
    ELSE LET k == CHOOSE i \in 1..Len(s) :
                     s[i] = sep /\ \A j \in 1..(i - 1) : s[j] # sep
         IN  <<SubSeq(s, 1, k - 1)>> \o SplitOn(SubSeq(s, k + 1, Len(s)), sep)

\* C1: the usernames of the rows written by one run are pairwise distinct,
\* and a username is not yet in usernames_used when line 91 adds it.
C1_UsernamesDistinct ==
    /\ \A i, j \in RowIndexes : i # j => file[i][1] # file[j][1]
    /\ pc = "emit" => username \notin usernames_used

\* C1 witness: a name whose base username is the disambiguated username of
\* an earlier row has been written.
C1_Witness ==
    \E i, j \in RowIndexes :
        /\ i < j
        /\ file[i][1] # BaseOf(file[i])
        /\ BaseOf(file[j]) = file[i][1]

\* C2: the row written for a name carries the base username when the base
\* is unused, and otherwise the base followed by the smallest n >= 2 whose
\* combination with the base is unused at that moment.
C2_CollisionRepair ==
    [][(pc = "emit" /\ pc' = "loop") =>
        LET base == generate_username(full_name)
            written == file'[Len(file')][1]
        IN  IF base \in usernames_used
            THEN \E n \in 2..(Cardinality(usernames_used) + 2) :
                    /\ written = base \o str(n)
                    /\ written \notin usernames_used
                    /\ \A m \in 2..(n - 1) :
                          (base \o str(m)) \in usernames_used
            ELSE written = base]_vars

\* C2 witness: a row whose username is its base followed by 3.
C2_Witness ==
    \E i \in RowIndexes : file[i][1] = BaseOf(file[i]) \o <<"3">>

\* C3: a completed run with count >= 0 leaves the header row followed by
\* one row per generated record, in generation order: count + 1 rows.
C3_RowCount ==
    (pc = "done" /\ count >= 0) =>
        /\ Len(file) = count + 1
        /\ file[1] = Header
        /\ Len(fake_stream) = count
        /\ \A k \in 1..count : file[k + 1][2] = fake_stream[k]

\* C3 witness: a completed run of two records with different names.
C3_Witness ==
    /\ pc = "done"
    /\ count = 2
    /\ Len(file) = 3
    /\ file[2][2] # file[3][2]

\* C4 (as claimed): a second run with the same count leaves the same
\* username, fullname, email, department and groups in every row.
C4_Reproducible ==
    (run = 2 /\ pc = "done") =>
        /\ Len(file) = Len(first_file)
        /\ \A i \in 2..Len(file) : \A c \in 1..5 :
              file[i][c] = first_file[i][c]

\* C5 (as claimed): with a negative count the output file is never opened
\* and success is never reported.
C5_NegativeCountRejected == count < 0 => (~opened /\ ~success)

C7_GroupsWellFormed ==
    \A i \in RowIndexes :
        LET tokens == SplitOn(file[i][5], ";")
            allowed == GROUPS[file[i][4]]
        IN  /\ Len(tokens) \in 1..2
            /\ \A a \in 1..Len(tokens) :
                  \E g \in 1..Len(allowed) : tokens[a] = allowed[g]
            /\ Len(tokens) = 2 =>
                  /\ tokens[1] # tokens[2]
                  /\ StrLess(tokens[1], tokens[2])

\* C7 witness: a Sales row with two groups, which GROUPS lists in the
\* other order.
C7_Witness ==
    \E i \in RowIndexes :
        /\ file[i][4] = "Sales"
        /\ file[i][5] = GROUPS["Sales"][2] \o <<";">> \o GROUPS["Sales"][1]

\* C8 (as claimed): the usernames of the records of one run of variant A
\* are pairwise distinct, in users and in the rows written.
C8_UsernamesDistinctA ==
    /\ \A i, j \in 1..Len(users) :
          i # j => users[i].username # users[j].username
    /\ \A i, j \in 2..Len(csvA) :
          i # j => csvA[i].username # csvA[j].username

\* C9: every run ends: each search for a suffix ends, the run reaches its
\* end with exactly count records when count >= 0, and users_generated only
\* ever grows by one, at the end of an iteration of the outer loop.
C9_Terminates ==
    /\ <>(pc = "done")
    /\ (pc = "probe") ~> (pc = "emit")
    /\ []((pc = "done" /\ count >= 0) => users_generated = count)
    /\ [][users_generated' # users_generated =>
            (pc = "emit" /\ users_generated' = users_generated + 1)]_vars

\* C9 witness: a completed run of the largest count over a source that
\* returned the same name on every call.
C9_Witness ==
    /\ pc = "done"
    /\ users_generated = MaxChain
    /\ \A k \in 1..Len(fake_stream) : fake_stream[k] = fake_stream[1]

\* C10: the email of every row is the row's own (final) username followed
\* by @techcorp.com, and the emails of one run are pairwise distinct.
C10_EmailFromUsername ==
    /\ \A i \in RowIndexes : file[i][3] = file[i][1] \o AtDomain
    /\ \A i, j \in RowIndexes : i # j => file[i][3] # file[j][3]

\* C10 witness: a row with a disambiguated username.
C10_Witness ==
    \E i \in RowIndexes :
        /\ file[i][1] # BaseOf(file[i])
        /\ file[i][3] = file[i][1] \o AtDomain

====
